---- MODULE Spec2Model ----
(***************************************************************************)
(* Model of include/sqrat/sqratUtil.h: the reference-counted SharedPtr,    *)
(* the per-VM Error registry, the ErrorHandling flag and the DefaultVM     *)
(* slot.                                                                   *)
(*                                                                         *)
(* SharedPtr objects live in a fixed set of storage slots (Handles); a     *)
(* slot keeps the bits of its members after the destructor has run.  The   *)
(* pointees and the reference counts live on a heap whose addresses are    *)
(* reused after delete.  A read of freed memory yields any value; a read   *)
(* of a member that no constructor has set yields the bits its storage     *)
(* holds.                                                                  *)
(***************************************************************************)
EXTENDS Integers, FiniteSets, Sequences, TLC

\* ---- bounds ------------------------------------------------------------
NumHandles == 3
NumObjs == 1
NumCells == 1
NumVMs == 2
NumThreads == 2
MaxStack == 2

NULL == 0
Handles == 1 .. NumHandles
Objs == 1 .. NumObjs
Cells == 1 .. NumCells
VMs == 1 .. NumVMs
Threads == 1 .. NumThreads
\* the largest count followed when threads race
MaxCount == NumHandles + 1
Msgs == {"", "a", "b"}

VARIABLES live, m_Ptr, m_RefCount, objAlloc, cellAlloc, cellVal,
          errMap, thrown, errorHandling, staticVm, ret,
          sqStack, sqLastError,
          thr, acted

ptrVars == <<live, m_Ptr, m_RefCount, objAlloc, cellAlloc, cellVal>>
regVars == <<errMap, thrown, errorHandling, staticVm, ret>>
\* the stacks of the VMs and the VMs' own last-error slots
sqVars == <<sqStack, sqLastError>>
\* thr[t]: where thread t is inside the call it is executing; acted: the
\* pairs <<t, vm>> of a thread and the VM it has made a call for (NULL: a
\* call on a SharedPtr)
thrVars == <<thr, acted>>
\* what the functions work on besides their own data
envVars == <<sqVars, thrVars>>
vars == <<live, m_Ptr, m_RefCount, objAlloc, cellAlloc, cellVal,
          errMap, thrown, errorHandling, staticVm, ret,
          sqStack, sqLastError,
          thr, acted>>

\* ---- heap --------------------------------------------------------------
\* Addresses `new T` / `new unsigned int` can return: any address not in use.
FreeObjs == {p \in Objs : ~objAlloc[p]}
FreeCellsOf(cA) == {c \in Cells : ~cA[c]}

\* What a freed or uninitialised unsigned int can hold, as far as Reset can
\* tell values apart: one, or a value other than one.
GarbageVals == {1, 2}

\* The values `*m_RefCount` can yield when Reset reads it for a SharedPtr
\* whose members are (ptr, rc).  Reset reads the count only when ptr != NULL.
ReadCount(ptr, rc) ==
    IF ptr = NULL THEN {0}
    ELSE IF cellAlloc[rc] THEN {cellVal[rc]}
    ELSE GarbageVals

\* Reset that also deletes while one other owner is left.
ResetOnEager(ptr, rc, v, oA, cA, cV) ==
    IF ptr = NULL
    THEN [ptr |-> ptr, rc |-> rc, oA |-> oA, cA |-> cA, cV |-> cV]
    ELSE IF v <= 2
    THEN [ptr |-> NULL, rc |-> NULL,
          oA |-> [oA EXCEPT ![ptr] = FALSE],
          cA |-> [cA EXCEPT ![rc] = FALSE],
          cV |-> [cV EXCEPT ![rc] = 0]]
    ELSE [ptr |-> ptr, rc |-> rc, oA |-> oA, cA |-> cA,
          cV |-> IF cA[rc] THEN [cV EXCEPT ![rc] = v - 1] ELSE cV]

\* SharedPtr::Reset on members (ptr, rc), v being the value read from
\* *m_RefCount, on the heap (oA, cA, cV).  Result: the members and the heap.
\* delete of an address that is not in use, and a store to a freed count,
\* end the process or leave the heap as it is.
ResetOn(ptr, rc, v, oA, cA, cV) ==
    IF ptr = NULL
    THEN [ptr |-> ptr, rc |-> rc, oA |-> oA, cA |-> cA, cV |-> cV]
    ELSE IF v = 1
    THEN [ptr |-> NULL, rc |-> NULL,
          oA |-> [oA EXCEPT ![ptr] = FALSE],
          cA |-> [cA EXCEPT ![rc] = FALSE],
          cV |-> [cV EXCEPT ![rc] = 0]]
    ELSE [ptr |-> ptr, rc |-> rc, oA |-> oA, cA |-> cA,
          cV |-> IF cA[rc] THEN [cV EXCEPT ![rc] = v - 1] ELSE cV]

\* `*m_RefCount += 1` on the count at rc.
IncrCount(rc, cV) == [cV EXCEPT ![rc] = cV[rc] + 1]

\* SharedPtr::Get, operator bool
Get(h) == m_Ptr[h]
IsSet(h) == m_Ptr[h] # NULL

\* ---- SharedPtr operations ----------------------------------------------
\* SharedPtr()
DefaultCtor(h) ==
    /\ ~live[h]
    /\ live' = [live EXCEPT ![h] = TRUE]
    /\ m_Ptr' = [m_Ptr EXCEPT ![h] = NULL]
    /\ m_RefCount' = [m_RefCount EXCEPT ![h] = NULL]
    /\ UNCHANGED <<objAlloc, cellAlloc, cellVal>>
    /\ UNCHANGED <<regVars, envVars>>

\* Init(ptr) on members (gp, grc): Reset, then m_Ptr = ptr and a new count of 1.
InitOn(h, p, gp, grc, oA) ==
    \E v \in ReadCount(gp, grc) :
      LET r == ResetOn(gp, grc, v, oA, cellAlloc, cellVal) IN
      \E c \in FreeCellsOf(r.cA) :
        /\ m_Ptr' = [m_Ptr EXCEPT ![h] = p]
        /\ m_RefCount' = [m_RefCount EXCEPT ![h] = c]
        /\ objAlloc' = r.oA
        /\ cellAlloc' = [r.cA EXCEPT ![c] = TRUE]
        /\ cellVal' = [r.cV EXCEPT ![c] = 1]

\* SharedPtr(T* ptr), SharedPtr(U* ptr): call Init(ptr) with m_Ptr and
\* m_RefCount set by no initialiser.  Reset then reads what the storage
\* holds: zero bits, or the members a SharedPtr destroyed in this storage
\* left there.  (Other bits make Reset dereference a wild pointer.)
PtrCtor(h, p) ==
    /\ ~live[h]
    /\ p \in FreeObjs \cup {NULL}
    /\ \E stale \in (IF m_Ptr[h] = NULL THEN {FALSE} ELSE BOOLEAN) :
         InitOn(h, p,
                IF stale THEN m_Ptr[h] ELSE NULL,
                IF stale THEN m_RefCount[h] ELSE NULL,
                IF p = NULL THEN objAlloc ELSE [objAlloc EXCEPT ![p] = TRUE])
    /\ live' = [live EXCEPT ![h] = TRUE]
    /\ UNCHANGED <<regVars, envVars>>

\* The body shared by the copy constructors and operator=: take copy's
\* members and add one to the shared count, on the cells (cA, cV).
TakeFrom(h, src, cA, cV) ==
    IF Get(src) # NULL
    THEN /\ m_Ptr' = [m_Ptr EXCEPT ![h] = Get(src)]
         /\ m_RefCount' = [m_RefCount EXCEPT ![h] = m_RefCount[src]]
         /\ cellVal' = IF cA[m_RefCount[src]] THEN IncrCount(m_RefCount[src], cV) ELSE cV
    ELSE /\ m_Ptr' = [m_Ptr EXCEPT ![h] = NULL]
         /\ m_RefCount' = [m_RefCount EXCEPT ![h] = NULL]
         /\ cellVal' = cV

\* SharedPtr(const SharedPtr<T>& copy), SharedPtr(const SharedPtr<U>& copy)
CopyCtor(h, src) ==
    /\ ~live[h]
    /\ live[src]
    /\ TakeFrom(h, src, cellAlloc, cellVal)
    /\ live' = [live EXCEPT ![h] = TRUE]
    /\ UNCHANGED <<objAlloc, cellAlloc>>
    /\ UNCHANGED <<regVars, envVars>>

\* ~SharedPtr(): Reset; the storage keeps the members as Reset left them.
\* With m_Ptr null nothing reads m_RefCount again before a constructor
\* overwrites it (Reset tests m_Ptr first), so it is recorded as NULL.
Dtor(h) ==
    /\ live[h]
    /\ \E v \in ReadCount(m_Ptr[h], m_RefCount[h]) :
         LET r == ResetOn(m_Ptr[h], m_RefCount[h], v, objAlloc, cellAlloc, cellVal) IN
         /\ m_Ptr' = [m_Ptr EXCEPT ![h] = r.ptr]
         /\ m_RefCount' = [m_RefCount EXCEPT ![h] = IF r.ptr = NULL THEN NULL ELSE r.rc]
         /\ objAlloc' = r.oA
         /\ cellAlloc' = r.cA
         /\ cellVal' = r.cV
    /\ live' = [live EXCEPT ![h] = FALSE]
    /\ UNCHANGED <<regVars, envVars>>

\* operator= without the `this != &copy` test: copy's members are read after
\* the Reset, which has changed them when copy is *this.
AssignNoSelfCheck(h, src) ==
    /\ live[h]
    /\ live[src]
    /\ \E v \in ReadCount(m_Ptr[h], m_RefCount[h]) :
         LET r == ResetOn(m_Ptr[h], m_RefCount[h], v, objAlloc, cellAlloc, cellVal)
             sp == IF src = h THEN r.ptr ELSE m_Ptr[src]
             sc == IF src = h THEN r.rc ELSE m_RefCount[src]
         IN /\ m_Ptr' = [m_Ptr EXCEPT ![h] = sp]
            /\ m_RefCount' = [m_RefCount EXCEPT ![h] = IF sp # NULL THEN sc ELSE NULL]
            /\ cellVal' = IF sp # NULL /\ r.cA[sc] THEN IncrCount(sc, r.cV) ELSE r.cV
            /\ objAlloc' = r.oA
            /\ cellAlloc' = r.cA
    /\ UNCHANGED live
    /\ UNCHANGED <<regVars, envVars>>

\* operator=(const SharedPtr<T>& copy); h = src is the self-assignment.
Assign(h, src) ==
    /\ live[h]
    /\ live[src]
    /\ IF h # src
       THEN \E v \in ReadCount(m_Ptr[h], m_RefCount[h]) :
              LET r == ResetOn(m_Ptr[h], m_RefCount[h], v, objAlloc, cellAlloc, cellVal) IN
              /\ TakeFrom(h, src, r.cA, r.cV)
              /\ objAlloc' = r.oA
              /\ cellAlloc' = r.cA
       ELSE UNCHANGED <<m_Ptr, m_RefCount, objAlloc, cellAlloc, cellVal>>
    /\ UNCHANGED live
    /\ UNCHANGED <<regVars, envVars>>

\* Init(T* ptr), Init(U* ptr) on a constructed SharedPtr; ptr is null or the
\* result of a new expression.
SharedPtrInit(h, p) ==
    /\ live[h]
    /\ p \in FreeObjs \cup {NULL}
    /\ InitOn(h, p, m_Ptr[h], m_RefCount[h],
              IF p = NULL THEN objAlloc ELSE [objAlloc EXCEPT ![p] = TRUE])
    /\ UNCHANGED live
    /\ UNCHANGED <<regVars, envVars>>

\* Init(ptr) with the pointer the SharedPtr holds, as in p.Init(p.Get()):
\* nothing is allocated for ptr, and Init does not compare ptr with m_Ptr.
SharedPtrInitOwned(h) ==
    /\ live[h]
    /\ IsSet(h)
    /\ InitOn(h, m_Ptr[h], m_Ptr[h], m_RefCount[h], objAlloc)
    /\ UNCHANGED live
    /\ UNCHANGED <<regVars, envVars>>

\* Reset()
Reset(h) ==
    /\ live[h]
    /\ \E v \in ReadCount(m_Ptr[h], m_RefCount[h]) :
         LET r == ResetOn(m_Ptr[h], m_RefCount[h], v, objAlloc, cellAlloc, cellVal) IN
         /\ m_Ptr' = [m_Ptr EXCEPT ![h] = r.ptr]
         /\ m_RefCount' = [m_RefCount EXCEPT ![h] = r.rc]
         /\ objAlloc' = r.oA
         /\ cellAlloc' = r.cA
         /\ cellVal' = r.cV
    /\ UNCHANGED live
    /\ UNCHANGED <<regVars, envVars>>

\* ---- Error registry, ErrorHandling, DefaultVM ---------------------------
\* ret is the most recent call: the function (op), its argument (arg: a VM,
\* or the SharedPtr dereferenced), whether arg had an entry in errMap when
\* the call began (had), and what the call returned: a string (Message), a
\* bool (Occurred, IsEnabled), a VM handle (Get) or a pointer (operator*,
\* operator->).  NoRet is the state before any call.
NoRet == [op |-> "", arg |-> NULL, had |-> FALSE,
          str |-> "", flag |-> FALSE, vm |-> NULL, ptr |-> NULL]

\* std::map::find(k) != end()
MapHas(m, k) == k \in DOMAIN m

\* the record of a call of op on arg that returns nothing
Call(op, arg) == [NoRet EXCEPT !.op = op, !.arg = arg, !.had = MapHas(errMap, arg)]

\* std::map::operator[]: the entry of k, default-constructed when absent
MapIndex(m, k) == IF k \in DOMAIN m THEN m ELSE (k :> "") @@ m
\* std::map::clear() in place of erase(k)
MapClear(m, k) == <<>>
\* std::map::erase(k)
MapErase(m, k) == [c \in DOMAIN m \ {k} |-> m[c]]

\* Throw that stores err whether or not an entry is pending.
ThrowOverwrite(vm, err) ==
    /\ errMap' = [MapIndex(errMap, vm) EXCEPT ![vm] = err]
    /\ thrown' = [thrown EXCEPT ![vm] = IF @ = <<>> THEN <<err>> ELSE <<@[1], err>>]
    /\ ret' = Call("Throw", vm)
    /\ UNCHANGED <<errorHandling, staticVm>>
    /\ UNCHANGED <<ptrVars, envVars>>

\* Error::Throw(vm, err).  thrown[vm] is history: the err of the first Throw
\* on vm since vm was last drained, followed by the err of the latest Throw
\* on vm after that one, if any.
Throw(vm, err) ==
    /\ errMap' = IF ~MapHas(errMap, vm)
                 THEN [MapIndex(errMap, vm) EXCEPT ![vm] = err]
                 ELSE errMap
    /\ thrown' = [thrown EXCEPT ![vm] = IF @ = <<>> THEN <<err>> ELSE <<@[1], err>>]
    /\ ret' = Call("Throw", vm)
    /\ UNCHANGED <<errorHandling, staticVm>>
    /\ UNCHANGED <<ptrVars, envVars>>

\* Clear that leaves the entry in the map.
ClearKeep(vm) ==
    /\ errMap' = errMap
    /\ thrown' = [thrown EXCEPT ![vm] = <<>>]
    /\ ret' = Call("Clear", vm)
    /\ UNCHANGED <<errorHandling, staticVm>>
    /\ UNCHANGED <<ptrVars, envVars>>

\* Error::Clear(vm)
Clear(vm) ==
    /\ errMap' = MapErase(errMap, vm)
    /\ thrown' = [thrown EXCEPT ![vm] = <<>>]
    /\ ret' = Call("Clear", vm)
    /\ UNCHANGED <<errorHandling, staticVm>>
    /\ UNCHANGED <<ptrVars, envVars>>

\* Message that leaves the entry in the map.
MessagePeek(vm) ==
    /\ LET m1 == MapIndex(errMap, vm) IN
         /\ ret' = [Call("Message", vm) EXCEPT !.str = m1[vm]]
         /\ errMap' = m1
    /\ thrown' = [thrown EXCEPT ![vm] = <<>>]
    /\ UNCHANGED <<errorHandling, staticVm>>
    /\ UNCHANGED <<ptrVars, envVars>>

\* Error::Message(vm): ret.str is the returned string
Message(vm) ==
    /\ LET m1 == MapIndex(errMap, vm) IN
         /\ ret' = [Call("Message", vm) EXCEPT !.str = m1[vm]]
         /\ errMap' = MapErase(m1, vm)
    /\ thrown' = [thrown EXCEPT ![vm] = <<>>]
    /\ UNCHANGED <<errorHandling, staticVm>>
    /\ UNCHANGED <<ptrVars, envVars>>

\* Occurred that looks the VM up with operator[], which makes an entry.
OccurredIndexing(vm) ==
    /\ ret' = [Call("Occurred", vm) EXCEPT !.flag = MapHas(errMap, vm)]
    /\ errMap' = MapIndex(errMap, vm)
    /\ UNCHANGED <<thrown, errorHandling, staticVm>>
    /\ UNCHANGED <<ptrVars, envVars>>

\* Error::Occurred(vm): ret.flag is the returned bool
Occurred(vm) ==
    /\ ret' = [Call("Occurred", vm) EXCEPT !.flag = MapHas(errMap, vm)]
    /\ UNCHANGED <<errMap, thrown, errorHandling, staticVm>>
    /\ UNCHANGED <<ptrVars, envVars>>

\* Enable that can switch error handling on and not off.
EnableOnly(enable) ==
    /\ errorHandling' = (errorHandling \/ enable)
    /\ ret' = Call("Enable", NULL)
    /\ UNCHANGED <<errMap, thrown, staticVm>>
    /\ UNCHANGED <<ptrVars, envVars>>

\* ErrorHandling::Enable(enable)
Enable(enable) ==
    /\ errorHandling' = enable
    /\ ret' = Call("Enable", NULL)
    /\ UNCHANGED <<errMap, thrown, staticVm>>
    /\ UNCHANGED <<ptrVars, envVars>>

\* ErrorHandling::IsEnabled(): ret.flag is the returned bool
IsEnabled ==
    /\ ret' = [Call("IsEnabled", NULL) EXCEPT !.flag = errorHandling]
    /\ UNCHANGED <<errMap, thrown, errorHandling, staticVm>>
    /\ UNCHANGED <<ptrVars, envVars>>

\* Set that keeps a default VM once one is set.
DefaultVM_SetOnce(vm) ==
    /\ staticVm' = IF staticVm = NULL THEN vm ELSE staticVm
    /\ ret' = Call("Set", vm)
    /\ UNCHANGED <<errMap, thrown, errorHandling>>
    /\ UNCHANGED <<ptrVars, envVars>>

\* DefaultVM::Set(vm)
DefaultVM_Set(vm) ==
    /\ staticVm' = vm
    /\ ret' = Call("Set", vm)
    /\ UNCHANGED <<errMap, thrown, errorHandling>>
    /\ UNCHANGED <<ptrVars, envVars>>

\* DefaultVM::Get(): ret.vm is the returned handle
DefaultVM_Get ==
    /\ ret' = [Call("Get", NULL) EXCEPT !.vm = staticVm]
    /\ UNCHANGED <<errMap, thrown, errorHandling, staticVm>>
    /\ UNCHANGED <<ptrVars, envVars>>

\* ---- Error::FormatTypeError and the Squirrel stack it works on -----------
\* A stack is a sequence, bottom first.  An object on it is its type name t
\* and, for a string, its text s.  SqBad is an object whose type cannot be
\* determined (its _typeof metamethod fails).
SqStr(x) == [t |-> "string", s |-> x]
SqInt == [t |-> "integer", s |-> ""]
SqBad == [t |-> "", s |-> ""]
SqObjects == {SqInt, SqBad}
ExpectedTypes == {"string", "table"}

\* SQ_SUCCEEDED(sq_typeof(vm, idx))
SqTypeofSucceeds(st, idx) == st[idx].t # ""
\* sq_typeof(vm, idx): pushes the type name of the object at idx; pushes
\* nothing when it fails
SqTypeof(st, idx) ==
    IF SqTypeofSucceeds(st, idx) THEN Append(st, SqStr(st[idx].t)) ELSE st
\* sq_tostring(vm, -1): pushes the top object converted to a string
SqToString(st) ==
    Append(st, IF st[Len(st)].t = "string" THEN st[Len(st)] ELSE SqStr(st[Len(st)].t))
\* sq_getstring(vm, -1, &actualType)
SqGetString(st) == st[Len(st)].s
\* sq_pop(vm, n)
SqPop(st, n) == SubSeq(st, 1, Len(st) - n)

\* the host or a script pushes an object on the stack of vm
SqPush(vm, o) ==
    /\ Len(sqStack[vm]) < MaxStack
    /\ sqStack' = [sqStack EXCEPT ![vm] = Append(@, o)]
    /\ UNCHANGED <<regVars, ptrVars, sqLastError, thrVars>>

\* FormatTypeError with expectedType and the actual type exchanged
FormatTypeErrorSwapped(vm, idx, expectedType) ==
    LET st0 == sqStack[vm]
        ok  == SqTypeofSucceeds(st0, idx)
        st1 == SqTypeof(st0, idx)
        st2 == SqToString(st1)
        actualType == SqGetString(st2)
        st3 == SqPop(st2, 1)
        err == IF ok
               THEN "wrong type (" \o actualType \o " expected, got " \o expectedType \o ")"
               ELSE "wrong type (" \o expectedType \o " expected, got unknown)"
    IN /\ idx \in 1 .. Len(st0)
       /\ ret' = [Call("FormatTypeError", vm) EXCEPT !.str = err]
       /\ sqStack' = [sqStack EXCEPT ![vm] = SqPop(IF ok THEN st3 ELSE st1, 1)]
       /\ UNCHANGED <<errMap, thrown, errorHandling, staticVm>>
       /\ UNCHANGED <<ptrVars, sqLastError, thrVars>>

\* Error::FormatTypeError(vm, idx, expectedType): ret.str is the returned
\* string.  idx is a valid index from the bottom of the stack of vm.
FormatTypeError(vm, idx, expectedType) ==
    LET st0 == sqStack[vm]
        err0 == "wrong type (" \o expectedType \o " expected"
        ok  == SqTypeofSucceeds(st0, idx)
        st1 == SqTypeof(st0, idx)
        st2 == SqToString(st1)
        actualType == SqGetString(st2)
        st3 == SqPop(st2, 1)
        err == IF ok
               THEN err0 \o ", got " \o actualType \o ")"
               ELSE err0 \o ", got unknown)"
    IN /\ idx \in 1 .. Len(st0)
       /\ ret' = [Call("FormatTypeError", vm) EXCEPT !.str = err]
       /\ sqStack' = [sqStack EXCEPT ![vm] = SqPop(IF ok THEN st3 ELSE st1, 1)]
       /\ UNCHANGED <<errMap, thrown, errorHandling, staticVm>>
       /\ UNCHANGED <<ptrVars, sqLastError, thrVars>>

\* ---- the binding layer that applies the error-handling policy -----------
\* Reporting that ignores the policy flag.
ReportAlways(vm) ==
    /\ MapHas(errMap, vm)
    /\ sqLastError' = [sqLastError EXCEPT ![vm] = <<errMap[vm]>>]
    /\ ret' = Call("Report", vm)
    /\ UNCHANGED <<errMap, thrown, errorHandling, staticVm, sqStack>>
    /\ UNCHANGED <<ptrVars, thrVars>>

\* The caller of a bound function, after an error was recorded for vm: with
\* the policy enabled it hands the recorded message to the VM's own error
\* reporting (sqLastError[vm]) and leaves the entry in the registry; with the
\* policy disabled it does nothing more.
Report(vm) ==
    /\ MapHas(errMap, vm)
    /\ sqLastError' = IF errorHandling
                      THEN [sqLastError EXCEPT ![vm] = <<errMap[vm]>>]
                      ELSE sqLastError
    /\ ret' = Call("Report", vm)
    /\ UNCHANGED <<errMap, thrown, errorHandling, staticVm, sqStack>>
    /\ UNCHANGED <<ptrVars, thrVars>>

\* ---- dereference ---------------------------------------------------------
\* operator* / operator-> with the assert left out
DerefUnchecked(h) ==
    /\ live[h]
    /\ ret' = [NoRet EXCEPT !.op = "deref", !.arg = h, !.ptr = m_Ptr[h]]
    /\ UNCHANGED <<errMap, thrown, errorHandling, staticVm>>
    /\ UNCHANGED <<ptrVars, envVars>>

\* operator*(), operator->(): assert(m_Ptr != NULL), then return the pointee.
\* A failed assert aborts the process: ret.op = "assert" and nothing was
\* returned.
Deref(h) ==
    /\ live[h]
    /\ ret' = IF m_Ptr[h] # NULL
              THEN [NoRet EXCEPT !.op = "deref", !.arg = h, !.ptr = m_Ptr[h]]
              ELSE [NoRet EXCEPT !.op = "assert", !.arg = h]
    /\ UNCHANGED <<errMap, thrown, errorHandling, staticVm>>
    /\ UNCHANGED <<ptrVars, envVars>>

\* ---- SharedPtr used by several threads ------------------------------------
\* A thread is idle or inside one call: a copy constructor on handle h that
\* has loaded the count (tmp) and not yet stored it, or a Reset on h (dtor:
\* the Reset of ~SharedPtr) that has tested the count, or loaded it for the
\* decrement.
IdleThr == [pc |-> "idle", h |-> NULL, tmp |-> 0, dtor |-> FALSE, vm |-> NULL, err |-> ""]
Idle(t) == thr[t].pc = "idle"
\* no thread is inside a call on handle h
Free(h) == \A t \in Threads : thr[t].h # h

\* the threads that have made a call
ActedThreads == {a[1] : a \in acted}

\* SharedPtr(T* ptr) run by thread t
T_PtrCtor(t, h, p) ==
    /\ Idle(t) /\ ~live[h] /\ Free(h)
    /\ p \in FreeObjs
    /\ \E stale \in (IF m_Ptr[h] = NULL THEN {FALSE} ELSE BOOLEAN) :
         InitOn(h, p,
                IF stale THEN m_Ptr[h] ELSE NULL,
                IF stale THEN m_RefCount[h] ELSE NULL,
                [objAlloc EXCEPT ![p] = TRUE])
    /\ live' = [live EXCEPT ![h] = TRUE]
    /\ acted' = acted \cup {<<t, NULL>>}
    /\ UNCHANGED <<thr, regVars, sqVars>>

\* SharedPtr(const SharedPtr& copy) up to the load of `*m_RefCount += 1`
T_CopyLoad(t, h, src) ==
    /\ Idle(t) /\ ~live[h] /\ Free(h)
    /\ live[src]
    /\ IF Get(src) # NULL
       THEN /\ m_Ptr' = [m_Ptr EXCEPT ![h] = Get(src)]
            /\ m_RefCount' = [m_RefCount EXCEPT ![h] = m_RefCount[src]]
            /\ \E v \in ReadCount(m_Ptr[src], m_RefCount[src]) :
                 thr' = [thr EXCEPT ![t] = [IdleThr EXCEPT !.pc = "copy_store", !.h = h, !.tmp = v]]
            /\ UNCHANGED live
       ELSE /\ m_Ptr' = [m_Ptr EXCEPT ![h] = NULL]
            /\ m_RefCount' = [m_RefCount EXCEPT ![h] = NULL]
            /\ live' = [live EXCEPT ![h] = TRUE]
            /\ UNCHANGED thr
    /\ acted' = acted \cup {<<t, NULL>>}
    /\ UNCHANGED <<objAlloc, cellAlloc, cellVal, regVars, sqVars>>

\* the store of `*m_RefCount += 1`; the constructor returns.  Lost
\* decrements let the count drift upwards without limit: a count above
\* MaxCount is not followed.
T_CopyStore(t) ==
    /\ thr[t].pc = "copy_store"
    /\ thr[t].tmp < MaxCount
    /\ LET c == m_RefCount[thr[t].h] IN
         cellVal' = IF cellAlloc[c] THEN [cellVal EXCEPT ![c] = thr[t].tmp + 1] ELSE cellVal
    /\ live' = [live EXCEPT ![thr[t].h] = TRUE]
    /\ thr' = [thr EXCEPT ![t] = IdleThr]
    /\ UNCHANGED <<m_Ptr, m_RefCount, objAlloc, cellAlloc, acted, regVars, sqVars>>

\* Reset() up to `if (*m_RefCount == 1)`; dtor: called by ~SharedPtr()
T_ResetTest(t, h, dtor) ==
    /\ Idle(t) /\ live[h] /\ Free(h)
    /\ IF m_Ptr[h] = NULL
       THEN /\ live' = [live EXCEPT ![h] = ~dtor]
            /\ UNCHANGED thr
       ELSE /\ \E v \in ReadCount(m_Ptr[h], m_RefCount[h]) :
                 thr' = [thr EXCEPT ![t] =
                           [IdleThr EXCEPT !.pc = IF v = 1 THEN "reset_delete" ELSE "reset_load",
                                           !.h = h, !.dtor = dtor]]
            /\ UNCHANGED live
    /\ acted' = acted \cup {<<t, NULL>>}
    /\ UNCHANGED <<m_Ptr, m_RefCount, objAlloc, cellAlloc, cellVal, regVars, sqVars>>

\* delete m_Ptr; delete m_RefCount; both members set to NULL
T_ResetDelete(t) ==
    /\ thr[t].pc = "reset_delete"
    /\ LET h == thr[t].h
           r == ResetOn(m_Ptr[h], m_RefCount[h], 1, objAlloc, cellAlloc, cellVal)
       IN /\ m_Ptr' = [m_Ptr EXCEPT ![h] = r.ptr]
          /\ m_RefCount' = [m_RefCount EXCEPT ![h] = r.rc]
          /\ objAlloc' = r.oA
          /\ cellAlloc' = r.cA
          /\ cellVal' = r.cV
          /\ live' = [live EXCEPT ![h] = ~thr[t].dtor]
    /\ thr' = [thr EXCEPT ![t] = IdleThr]
    /\ UNCHANGED <<acted, regVars, sqVars>>

\* the load of `*m_RefCount -= 1`
T_ResetLoad(t) ==
    /\ thr[t].pc = "reset_load"
    /\ \E v \in ReadCount(m_Ptr[thr[t].h], m_RefCount[thr[t].h]) :
         thr' = [thr EXCEPT ![t].pc = "reset_store", ![t].tmp = v]
    /\ UNCHANGED <<ptrVars, acted, regVars, sqVars>>

\* the store of `*m_RefCount -= 1`; Reset returns.  A count that would wrap
\* below zero is not followed.
T_ResetStore(t) ==
    /\ thr[t].pc = "reset_store"
    /\ thr[t].tmp >= 1
    /\ LET c == m_RefCount[thr[t].h] IN
         cellVal' = IF cellAlloc[c] THEN [cellVal EXCEPT ![c] = thr[t].tmp - 1] ELSE cellVal
    /\ live' = [live EXCEPT ![thr[t].h] = ~thr[t].dtor]
    /\ thr' = [thr EXCEPT ![t] = IdleThr]
    /\ UNCHANGED <<m_Ptr, m_RefCount, objAlloc, cellAlloc, acted, regVars, sqVars>>

\* ---- Error used by several threads ----------------------------------------
\* Some thread is inside errMap[vm] = err, inserting a node into the tree of
\* the map.
Inserting(t) == thr[t].pc = "throw_inserting"

\* errMap.find(vm) == errMap.end() in Throw, run by thread t.  The map has no
\* lock: a find that runs while another thread inserts a node and
\* rebalances the tree is a data race, and can miss a key that is in the map.
FindResults(t, vm) ==
    {MapHas(errMap, vm)} \cup
        (IF \E u \in Threads \ {t} : Inserting(u) THEN {FALSE} ELSE {})

\* Error::Throw(vm, err) up to the test of the result of find
T_ThrowFind(t, vm, err) ==
    /\ Idle(t)
    /\ \E found \in FindResults(t, vm) :
         thr' = IF found THEN thr
                ELSE [thr EXCEPT ![t] = [IdleThr EXCEPT !.pc = "throw_index", !.vm = vm, !.err = err]]
    /\ thrown' = [thrown EXCEPT ![vm] = IF @ = <<>> THEN <<err>> ELSE <<@[1], err>>]
    /\ acted' = acted \cup {<<t, vm>>}
    /\ UNCHANGED <<errMap, errorHandling, staticVm, ret, ptrVars, sqVars>>

\* errMap[vm]: operator[] looks the key up and, when it is absent, starts to
\* insert a node
T_ThrowIndex(t) ==
    /\ thr[t].pc = "throw_index"
    /\ thr' = [thr EXCEPT ![t].pc = IF MapHas(errMap, thr[t].vm)
                                    THEN "throw_assign" ELSE "throw_inserting"]
    /\ UNCHANGED <<regVars, ptrVars, sqVars, acted>>

\* the node is in the map and err is assigned to it; Throw returns
T_ThrowAssign(t) ==
    /\ thr[t].pc \in {"throw_assign", "throw_inserting"}
    /\ errMap' = [MapIndex(errMap, thr[t].vm) EXCEPT ![thr[t].vm] = thr[t].err]
    /\ thr' = [thr EXCEPT ![t] = IdleThr]
    /\ UNCHANGED <<thrown, errorHandling, staticVm, ret, ptrVars, sqVars, acted>>

\* Error::Clear(vm) run by thread t
T_Clear(t, vm) ==
    /\ Idle(t)
    /\ errMap' = MapErase(errMap, vm)
    /\ thrown' = [thrown EXCEPT ![vm] = <<>>]
    /\ acted' = acted \cup {<<t, vm>>}
    /\ UNCHANGED <<thr, errorHandling, staticVm, ret, ptrVars, sqVars>>

\* ---- specifications -----------------------------------------------------
Init ==
    /\ live = [h \in Handles |-> FALSE]
    /\ m_Ptr = [h \in Handles |-> NULL]
    /\ m_RefCount = [h \in Handles |-> NULL]
    /\ objAlloc = [p \in Objs |-> FALSE]
    /\ cellAlloc = [c \in Cells |-> FALSE]
    /\ cellVal = [c \in Cells |-> 0]
    /\ errMap = <<>>
    /\ thrown = [c \in VMs |-> <<>>]
    /\ errorHandling = TRUE
    /\ staticVm = NULL
    /\ ret = NoRet
    /\ sqStack = [c \in VMs |-> <<>>]
    /\ sqLastError = [c \in VMs |-> <<>>]
    /\ thr = [t \in Threads |-> IdleThr]
    /\ acted = {}

\* The SharedPtr operations
Next ==
    \/ \E h \in Handles : DefaultCtor(h)
    \/ \E h \in Handles, p \in Objs \cup {NULL} : PtrCtor(h, p)
    \/ \E h \in Handles, src \in Handles : CopyCtor(h, src)
    \/ \E h \in Handles : Dtor(h)
    \/ \E h \in Handles, src \in Handles : Assign(h, src)
    \/ \E h \in Handles, p \in Objs \cup {NULL} : SharedPtrInit(h, p)
    \/ \E h \in Handles : Reset(h)

Spec == Init /\ [][Next]_vars

\* The registry, policy and default-VM operations
RegNext ==
    \/ \E vm \in VMs, err \in Msgs : Throw(vm, err)
    \/ \E vm \in VMs : Clear(vm)
    \/ \E vm \in VMs : Message(vm)
    \/ \E vm \in VMs : Occurred(vm)
    \/ \E b \in BOOLEAN : Enable(b)
    \/ IsEnabled
    \/ \E vm \in VMs \cup {NULL} : DefaultVM_Set(vm)
    \/ DefaultVM_Get

RegSpec == Init /\ [][RegNext]_vars

\* A program that works on SharedPtrs and then dereferences one of them.
\* The run is followed up to the dereference: a failed assert ends the
\* process, and a dereference that returns has changed nothing, so what can
\* follow it is what Next can do without it.
DerefNext ==
    \/ ret.op = "" /\ Next
    \/ ret.op = "" /\ \E h \in Handles : Deref(h)

DerefSpec == Init /\ [][DerefNext]_vars

\* Errors recorded by bound functions and reported by their callers
PolicyNext ==
    \/ \E vm \in VMs, err \in Msgs \ {""} : Throw(vm, err)
    \/ \E vm \in VMs : Report(vm)
    \/ \E vm \in VMs : Clear(vm)
    \/ \E b \in BOOLEAN : Enable(b)

PolicySpec == Init /\ [][PolicyNext]_vars

\* The SharedPtr operations, Init with the pointer already held included
InitNext ==
    \/ Next
    \/ \E h \in Handles : SharedPtrInitOwned(h)

InitSpec == Init /\ [][InitNext]_vars

\* Programs that construct, copy, assign and destroy SharedPtrs, never pass a
\* null pointer and never call Reset or Init themselves
OwnNext ==
    \/ \E h \in Handles : DefaultCtor(h)
    \/ \E h \in Handles, p \in Objs : PtrCtor(h, p)
    \/ \E h \in Handles, src \in Handles : CopyCtor(h, src)
    \/ \E h \in Handles, src \in Handles : Assign(h, src)
    \/ \E h \in Handles : Dtor(h)

OwnSpec == Init /\ [][OwnNext]_vars

\* Threads that construct, copy, Reset and destroy SharedPtrs
RaceNext ==
    \/ \E t \in Threads, h \in Handles, p \in Objs : T_PtrCtor(t, h, p)
    \/ \E t \in Threads, h \in Handles, src \in Handles : T_CopyLoad(t, h, src)
    \/ \E t \in Threads : T_CopyStore(t)
    \/ \E t \in Threads, h \in Handles, dtor \in BOOLEAN : T_ResetTest(t, h, dtor)
    \/ \E t \in Threads : T_ResetDelete(t)
    \/ \E t \in Threads : T_ResetLoad(t)
    \/ \E t \in Threads : T_ResetStore(t)

RaceSpec == Init /\ [][RaceNext]_vars

\* Threads that Throw and Clear errors
ErrRaceNext ==
    \/ \E t \in Threads, vm \in VMs, err \in Msgs \ {""} : T_ThrowFind(t, vm, err)
    \/ \E t \in Threads : T_ThrowIndex(t)
    \/ \E t \in Threads : T_ThrowAssign(t)
    \/ \E t \in Threads, vm \in VMs : T_Clear(t, vm)

ErrRaceSpec == Init /\ [][ErrRaceNext]_vars

\* FormatTypeError on the stacks of the VMs
FmtNext ==
    \/ \E vm \in VMs, o \in SqObjects : SqPush(vm, o)
    \/ \E vm \in VMs, idx \in 1 .. MaxStack, e \in ExpectedTypes :
          FormatTypeError(vm, idx, e)

FmtSpec == Init /\ [][FmtNext]_vars

\* The registry used by a program that never passes QuietVM to Throw
QuietVM == NumVMs

QuietNext ==
    \/ \E vm \in VMs \ {QuietVM}, err \in Msgs : Throw(vm, err)
    \/ \E vm \in VMs : Clear(vm)
    \/ \E vm \in VMs : Message(vm)
    \/ \E vm \in VMs : Occurred(vm)
    \/ \E b \in BOOLEAN : Enable(b)
    \/ IsEnabled
    \/ \E vm \in VMs \cup {NULL} : DefaultVM_Set(vm)
    \/ DefaultVM_Get

QuietSpec == Init /\ [][QuietNext]_vars

TypeOK ==
    /\ live \in [Handles -> BOOLEAN]
    /\ m_Ptr \in [Handles -> Objs \cup {NULL}]
    /\ m_RefCount \in [Handles -> Cells \cup {NULL}]
    /\ \A h \in Handles : m_Ptr[h] # NULL => m_RefCount[h] # NULL
    /\ objAlloc \in [Objs -> BOOLEAN]
    /\ cellAlloc \in [Cells -> BOOLEAN]
    /\ cellVal \in [Cells -> 0 .. NumHandles]
    /\ \A c \in Cells : cellAlloc[c] <=> cellVal[c] >= 1
    /\ DOMAIN errMap \subseteq VMs
    /\ \A c \in DOMAIN errMap : errMap[c] \in Msgs
    /\ errorHandling \in BOOLEAN
    /\ staticVm \in VMs \cup {NULL}
    /\ \A c \in VMs : Len(sqStack[c]) <= MaxStack /\ Len(sqLastError[c]) <= 1
    /\ \A t \in Threads : thr[t].pc = "idle" => thr[t] = IdleThr

\* ---- the properties ----------------------------------------------------
\* The live SharedPtrs whose m_Ptr is p
Refs(p) == {g \in Handles : live[g] /\ m_Ptr[g] = p}

\* C1: the count of every pointee equals the number of live handles that
\* reference the pointee.
C1_CountEqualsLiveHandles ==
    \A h \in Handles :
        (live[h] /\ IsSet(h)) =>
            cellVal[m_RefCount[h]] = Cardinality(Refs(m_Ptr[h]))

\* C2: a pointee is destroyed exactly once, in the step that takes its last
\* live handle away: it exists while a live handle references it (never
\* destroyed early, and so never deleted again through a handle that still
\* holds it) and it does not exist once none does.
C2_DestroyedExactlyAtLastRelease ==
    \A p \in Objs : objAlloc[p] <=> Refs(p) # {}

\* C3: after Reset() the handle is empty: operator bool is false and Get()
\* is null, whether or not other handles share the pointee.
C3_ResetLeavesHandleEmpty ==
    [][\A h \in Handles : Reset(h) => (~IsSet(h)' /\ Get(h)' = NULL)]_vars

\* C4: Throw(vm, err) creates the entry (vm, err) exactly when vm has no
\* entry and otherwise leaves the registry unchanged; so after Throw(vm, a),
\* Throw(vm, b) the call Message(vm) returns a and leaves no entry for vm.
C4_FirstErrorWins ==
    [][/\ \A vm \in VMs, err \in Msgs :
            Throw(vm, err) =>
                IF MapHas(errMap, vm)
                THEN errMap' = errMap
                ELSE /\ MapHas(errMap', vm)
                     /\ errMap'[vm] = err
                     /\ MapErase(errMap', vm) = errMap
       /\ \A vm \in VMs :
            (Message(vm) /\ Len(thrown[vm]) = 2) =>
                (ret'.str = thrown[vm][1] /\ ~MapHas(errMap', vm))]_vars

\* a second Throw with another message was made on a pending entry, and the
\* entry still holds the first message
C4_Witness ==
    \E vm \in VMs :
        /\ thrown[vm] = <<"a", "b">>
        /\ MapHas(errMap, vm)
        /\ errMap[vm] = "a"

\* C5: Message(vm) returns the pending message of vm, or the empty string
\* when there is none, and removes the entry: afterwards Occurred(vm) is
\* false and a second Message(vm) returns the empty string; the entries of
\* the other VMs stay.
C5_MessageDrains ==
    [][\A vm \in VMs :
         Message(vm) =>
            /\ ret'.str = (IF MapHas(errMap, vm) THEN errMap[vm] ELSE "")
            /\ ~MapHas(errMap', vm)
            /\ MapIndex(errMap', vm)[vm] = ""
            /\ \A c \in VMs \ {vm} :
                  /\ MapHas(errMap', c) = MapHas(errMap, c)
                  /\ MapHas(errMap, c) => errMap'[c] = errMap[c]]_vars

\* Message has returned a pending, non-empty message and its VM has no entry
C5_Witness ==
    /\ ret.str \in {"a", "b"}
    /\ \E vm \in VMs : ~MapHas(errMap, vm) /\ thrown[vm] = <<>>

\* C6: assigning a handle to itself changes neither its pointee nor its
\* count and destroys nothing, also when it is the only owner.
C6_SelfAssignChangesNothing ==
    [][\A h \in Handles :
         Assign(h, h) =>
            /\ m_Ptr'[h] = m_Ptr[h]
            /\ m_RefCount'[h] = m_RefCount[h]
            /\ objAlloc' = objAlloc
            /\ cellAlloc' = cellAlloc
            /\ cellVal' = cellVal]_vars

\* a handle that is the only owner of a live pointee; the self-assignment
\* takes this state to itself
C6_Witness ==
    \E h \in Handles :
        /\ live[h] /\ IsSet(h)
        /\ objAlloc[m_Ptr[h]]
        /\ cellAlloc[m_RefCount[h]]
        /\ cellVal[m_RefCount[h]] = 1

C8_AssignEmptyReleases ==
    [][\A h \in Handles, src \in Handles :
         (Assign(h, src) /\ h # src /\ ~IsSet(src) /\ IsSet(h)) =>
            LET p == m_Ptr[h]
                others == Refs(p) \ {h}
            IN /\ ~IsSet(h)'
               /\ IF others = {}
                  THEN ~objAlloc'[p]
                  ELSE /\ objAlloc'[p]
                       /\ \A g \in others :
                            cellVal'[m_RefCount[g]] = cellVal[m_RefCount[g]] - 1]_vars

\* C9: the copy constructor gives the new handle copy's pointee and count;
\* the count grows by exactly one iff copy is non-empty, the new handle is
\* empty iff copy is, and copy keeps its pointee.
C9_CopySharesAndCounts ==
    [][\A h \in Handles, src \in Handles :
         CopyCtor(h, src) =>
            /\ m_Ptr'[h] = m_Ptr[src]
            /\ m_Ptr'[src] = m_Ptr[src] /\ m_RefCount'[src] = m_RefCount[src]
            /\ IsSet(h)' <=> IsSet(src)
            /\ IF IsSet(src)
               THEN /\ m_RefCount'[h] = m_RefCount[src]
                    /\ cellAlloc'[m_RefCount[src]]
                    /\ cellVal'[m_RefCount[src]] = cellVal[m_RefCount[src]] + 1
               ELSE cellVal' = cellVal]_vars

\* C10: SharedPtr(ptr) yields a handle on ptr with a new count of 1 that no
\* existing handle shares, and changes no other pointee, count or handle.
C10_PtrCtorFreshCount ==
    [][\A h \in Handles, p \in Objs :
         PtrCtor(h, p) =>
            LET c == m_RefCount'[h] IN
            /\ m_Ptr'[h] = p
            /\ c # NULL
            /\ ~cellAlloc[c] /\ cellAlloc'[c] /\ cellVal'[c] = 1
            /\ \A g \in Handles \ {h} : live[g] => m_RefCount'[g] # c
            /\ \A g \in Handles \ {h} : m_Ptr'[g] = m_Ptr[g] /\ m_RefCount'[g] = m_RefCount[g]
            /\ \A q \in Objs : objAlloc'[q] = (objAlloc[q] \/ q = p)
            /\ \A d \in Cells \ {c} :
                  cellAlloc'[d] = cellAlloc[d] /\ cellVal'[d] = cellVal[d]]_vars

\* C11: Clear(vm) removes the entry of vm, if any, and returns nothing; with
\* no entry it leaves the registry as it is.  After it Occurred(vm) is false
\* and Message(vm) reads the empty string.
C11_ClearDiscards ==
    [][\A vm \in VMs :
         Clear(vm) =>
            /\ ~MapHas(errMap', vm)
            /\ MapIndex(errMap', vm)[vm] = ""
            /\ ret'.str = "" /\ ret' = Call("Clear", vm)
            /\ (~MapHas(errMap, vm) => errMap' = errMap)
            /\ MapErase(errMap, vm) = errMap']_vars

\* Clear has just removed the entry a Throw had made for its VM
C11_Witness ==
    /\ ret.op = "Clear" /\ ret.had
    /\ ~MapHas(errMap, ret.arg)
    /\ thrown[ret.arg] = <<>>

\* The step changes the entry of c: makes it, removes it or alters its message
EntryChanged(c) ==
    \/ MapHas(errMap', c) # MapHas(errMap, c)
    \/ MapHas(errMap, c) /\ errMap'[c] # errMap[c]

\* C12: Throw, Clear, Message and Occurred on one VM leave every other VM's
\* entry as it is, present or absent, and a pending entry stays, with its
\* message, through every step other than Clear or Message on its own VM.
C12_EntriesIsolated ==
    [][\A c2 \in VMs :
         EntryChanged(c2) =>
            /\ \A c1 \in VMs \ {c2} :
                  /\ \A err \in Msgs : ~Throw(c1, err)
                  /\ ~Clear(c1) /\ ~Message(c1) /\ ~Occurred(c1)
            /\ MapHas(errMap, c2) => (Clear(c2) \/ Message(c2))]_vars

\* one VM's entry has just been drained while another VM's entry is pending
C12_Witness ==
    /\ ret.op \in {"Clear", "Message"} /\ ret.had
    /\ \E c2 \in VMs \ {ret.arg} : MapHas(errMap, c2) /\ errMap[c2] = "b"

\* C13: a VM that was never passed to Throw has no entry in any reachable
\* state: Occurred on it returns false and Message on it returns the empty
\* string, however often Message, Clear and Occurred were called on it
\* before; and Occurred on any VM leaves the registry as it is.
C13_NeverThrownHasNoError ==
    /\ ~MapHas(errMap, QuietVM)
    /\ [][/\ ~MapHas(errMap', QuietVM)
          /\ Occurred(QuietVM) => ~ret'.flag
          /\ Message(QuietVM) => ret'.str = ""
          /\ \A vm \in VMs : Occurred(vm) => errMap' = errMap]_vars

\* Message was called on the VM that is never thrown to, while another VM
\* has an error pending
C13_Witness ==
    /\ ret.op = "Message" /\ ret.arg = QuietVM /\ ret.str = ""
    /\ \E c \in VMs \ {QuietVM} : MapHas(errMap, c) /\ errMap[c] = "a"

\* C14: operator* / operator-> on an empty SharedPtr fail the assertion and
\* return nothing; on a non-empty SharedPtr they return its m_Ptr and change
\* no member, count or object.
C14_DerefAssertsNonEmpty ==
    [][\A h \in Handles :
         Deref(h) =>
            IF IsSet(h)
            THEN /\ ret'.op = "deref" /\ ret'.ptr = Get(h)
                 /\ UNCHANGED <<m_Ptr, m_RefCount, objAlloc, cellAlloc, cellVal, live>>
            ELSE ret'.op = "assert" /\ ret'.ptr = NULL]_vars

\* an empty SharedPtr was dereferenced and the assert failed, while another
\* SharedPtr owned an object
C14_Witness ==
    /\ ret.op = "assert"
    /\ ret.arg \in Handles /\ live[ret.arg] /\ ~IsSet(ret.arg)
    /\ \E g \in Handles : live[g] /\ IsSet(g) /\ objAlloc[m_Ptr[g]]

\* C15: FormatTypeError(vm, idx, expected) returns
\* "wrong type (<expected> expected, got <actual>)" when sq_typeof finds the
\* type name <actual> of the object at idx, and
\* "wrong type (<expected> expected, got unknown)" when sq_typeof fails.
C15_FormatTypeErrorText ==
    [][\A vm \in VMs, idx \in 1 .. MaxStack, e \in ExpectedTypes :
         FormatTypeError(vm, idx, e) =>
            LET o == sqStack[vm][idx] IN
            /\ o = SqBad => ret'.str = "wrong type (" \o e \o " expected, got unknown)"
            /\ o # SqBad => ret'.str = "wrong type (" \o e \o " expected, got " \o o.t \o ")"
            /\ (o = SqInt /\ e = "string") =>
                  ret'.str = "wrong type (string expected, got integer)"
            /\ (o = SqBad /\ e = "string") =>
                  ret'.str = "wrong type (string expected, got unknown)"]_vars

\* the text for a failed lookup has been returned while an integer, for
\* which the lookup succeeds, is on a stack
C15_Witness ==
    /\ ret.op = "FormatTypeError"
    /\ ret.str = "wrong type (table expected, got unknown)"
    /\ \E vm \in VMs : sqStack[vm] # <<>> /\ sqStack[vm][1] = SqInt

\* C16: FormatTypeError leaves errMap as it is and leaves the stack of vm as
\* deep as it found it, whether sq_typeof succeeds or fails.
C16_FormatTypeErrorPure ==
    [][\A vm \in VMs, idx \in 1 .. MaxStack, e \in ExpectedTypes :
         FormatTypeError(vm, idx, e) =>
            /\ errMap' = errMap
            /\ Len(sqStack'[vm]) = Len(sqStack[vm])]_vars

C18_ConfinedCountExact ==
    (Cardinality(ActedThreads) <= 1 /\ \A t \in Threads : Idle(t)) =>
        \A h \in Handles :
            (live[h] /\ IsSet(h)) =>
                cellVal[m_RefCount[h]] = Cardinality(Refs(m_Ptr[h]))

\* every VM is used by one thread only
OneThreadPerVM == \A a, b \in acted : a[2] = b[2] => a[1] = b[1]

C20_FlagFollowsEnable ==
    /\ errorHandling = TRUE
    /\ [][/\ \A b \in BOOLEAN :
               Enable(b) =>
                  /\ errorHandling' = b
                  /\ errMap' = errMap
                  /\ staticVm' = staticVm
          /\ IsEnabled =>
                (ret'.flag = errorHandling /\ errorHandling' = errorHandling)
          /\ (errorHandling' # errorHandling) => (\E b \in BOOLEAN : Enable(b))]_vars

\* IsEnabled has returned false after an Enable(false), with an error
\* pending and a default VM set
C20_Witness ==
    /\ ret.op = "IsEnabled"
    /\ ~ret.flag
    /\ ~errorHandling
    /\ \E vm \in VMs : MapHas(errMap, vm)
    /\ staticVm # NULL

\* C21: the default VM is null at the start; Set(vm) stores vm, whatever vm
\* is, and changes neither the registry nor the error-handling flag; Get
\* returns the stored handle and changes nothing; and a step that changes
\* the stored handle is a Set, so Get returns the vm of the last Set
\* whatever Error and ErrorHandling calls were made since.
C21_GetReturnsLastSet ==
    /\ staticVm = NULL
    /\ [][/\ \A vm \in VMs \cup {NULL} :
               DefaultVM_Set(vm) =>
                  /\ staticVm' = vm
                  /\ errMap' = errMap
                  /\ errorHandling' = errorHandling
          /\ DefaultVM_Get =>
                (ret'.vm = staticVm /\ staticVm' = staticVm)
          /\ (staticVm' # staticVm) =>
                (\E vm \in VMs \cup {NULL} : DefaultVM_Set(vm))]_vars

\* Get has returned the VM that was set, with an error pending for the
\* other VM and error handling switched off
C21_Witness ==
    /\ ret.op = "Get"
    /\ ret.vm # NULL
    /\ ret.vm = staticVm
    /\ \E vm \in VMs \ {ret.vm} : MapHas(errMap, vm)
    /\ ~errorHandling

\* C22: no SharedPtr dangles: a live SharedPtr whose operator bool is true
\* points to an object that has not been deleted, and its count, which the
\* next Reset, operator= or destructor will read, has not been deleted.
C22_NoHandleDangles ==
    \A h \in Handles :
        (live[h] /\ IsSet(h)) =>
            (objAlloc[m_Ptr[h]] /\ cellAlloc[m_RefCount[h]])

\* C23: a live SharedPtr has a pointee exactly when it has a count, and
\* every count that is allocated is the count of a live SharedPtr, so that
\* no count outlives its last SharedPtr.
C23_PointeeIffCount ==
    /\ \A h \in Handles :
          live[h] => (m_Ptr[h] = NULL <=> m_RefCount[h] = NULL)
    /\ \A c \in Cells :
          cellAlloc[c] => \E h \in Handles : live[h] /\ m_RefCount[h] = c

\* C24: in a program that only default-constructs, constructs from a
\* non-null new object, copies, assigns and destroys SharedPtrs, the count
\* of every pointee equals the number of live SharedPtrs that hold it, and
\* an object exists exactly while a live SharedPtr holds it.
C24_ExactWithoutResetOrInit ==
    /\ \A h \in Handles :
          (live[h] /\ IsSet(h)) =>
              /\ cellAlloc[m_RefCount[h]]
              /\ cellVal[m_RefCount[h]] = Cardinality(Refs(m_Ptr[h]))
    /\ \A p \in Objs : objAlloc[p] <=> Refs(p) # {}

\* C25: Init(p) on a SharedPtr that holds an object q with count k gives up
\* that share as Reset does (q and its count are deleted when k is one;
\* otherwise both stay, the count becomes k - 1 and the other SharedPtrs
\* keep their members) and then holds p with a new count of one; the object
\* it holds afterwards has not been deleted, also when p is q.
C25_InitReleasesThenOwns ==
    [][\A h \in Handles, p \in Objs \cup {NULL} :
         (/\ IsSet(h) /\ objAlloc[m_Ptr[h]] /\ cellAlloc[m_RefCount[h]]
          /\ \/ SharedPtrInit(h, p)
             \/ p = m_Ptr[h] /\ SharedPtrInitOwned(h)) =>
            LET q == m_Ptr[h]
                c == m_RefCount[h]
                k == cellVal[c]
            IN /\ m_Ptr'[h] = p
               /\ m_RefCount'[h] # NULL
               /\ cellAlloc'[m_RefCount'[h]] /\ cellVal'[m_RefCount'[h]] = 1
               /\ IF k = 1
                  THEN q # p => ~objAlloc'[q]
                  ELSE /\ objAlloc'[q]
                       /\ m_RefCount'[h] # c
                       /\ cellAlloc'[c] /\ cellVal'[c] = k - 1
               /\ \A g \in Handles \ {h} :
                     m_Ptr'[g] = m_Ptr[g] /\ m_RefCount'[g] = m_RefCount[g]
               /\ p # NULL => objAlloc'[p]]_vars

====
